---- MODULE Spec2Model ----
(***************************************************************************)
(* seq-tools: anchor-relative barcode/ID extraction (barcode_id.py) and    *)
(* per-sequence metrics (seq_analysis.py).                                  *)
(*                                                                         *)
(* A Python str is modelled as a sequence of one-character strings, with   *)
(* 0-based positions where the source uses them.  A call's outcome is a    *)
(* record: [str |-> s] for a returned string, [num_milli |-> k] for a       *)
(* returned number (in thousandths, the source rounds to 3 decimals),      *)
(* [table |-> df] for a returned data frame and [exc |-> name] for a raised *)
(* exception.                                                              *)
(***************************************************************************)
EXTENDS Integers, Sequences, FiniteSets, TLC

VARIABLES
    seq,            \* locate_id / locate_bc / dna_sequence.__init__ argument
    pattern,        \* id_pattern / bc_pattern argument
    n,              \* n_id / n_bc argument
    sequence,       \* reverse_comp argument
    nucleic_acid,   \* reverse_comp argument
    self,           \* the dna_sequence object
    file,           \* rows of the file compile_id reads
    rev_comp,       \* compile_id argument
    id_kwargs,      \* compile_id argument
    bc_kwargs,      \* compile_id argument
    df,             \* compile_id's data frame
    pc,             \* compile_id's position
    called,         \* the function whose outcome ret holds
    ret             \* outcome of the last call

vars == <<seq, pattern, n, sequence, nucleic_acid, self, file, rev_comp,
          id_kwargs, bc_kwargs, df, pc, called, ret>>

None == [none |-> TRUE]

\* ------------------------------------------------------------------ bounds
MaxSeqLen == 5
MaxPatLen == 2
MaxN == 7
MaxCompLen == 3
MaxUnitLen == 2
MaxRepeat == 7
RowLen == 4
MaxRows == 2

\* ----------------------------------------------------------- Python strings
Strs(alphabet, maxlen) == UNION {[1..k -> alphabet] : k \in 0..maxlen}

\* a slice index as Python normalises it: negative counts from the end
PyIndex(x, len) ==
    IF x < 0 THEN (IF len + x < 0 THEN 0 ELSE len + x)
    ELSE (IF x > len THEN len ELSE x)

\* s[start:stop]
PySlice(s, start, stop) ==
    LET lo == PyIndex(start, Len(s))
        hi == PyIndex(stop, Len(s))
    IN IF lo < hi THEN SubSeq(s, lo + 1, hi) ELSE <<>>

\* s[::-1]
Reversed(s) == [k \in 1..Len(s) |-> s[Len(s) + 1 - k]]

\* ------------------------------------------------------------ re.finditer
\* Patterns are regular expressions made of literal characters and ".".
\* pat matches s at 0-based position pos
MatchAt(pat, s, pos) ==
    /\ pos + Len(pat) <= Len(s)
    /\ \A k \in 1..Len(pat) : pat[k] = "." \/ pat[k] = s[pos + k]

\* [m.start(0) for m in re.finditer(pat, s)]: non-overlapping matches, left
\* to right, scanning from pos
RECURSIVE finditer(_, _, _)
finditer(pat, s, pos) ==
    IF pos > Len(s) THEN <<>>
    ELSE IF MatchAt(pat, s, pos)
         THEN <<pos>> \o finditer(pat, s, pos + (IF Len(pat) = 0 THEN 1 ELSE Len(pat)))
         ELSE finditer(pat, s, pos + 1)

\* ------------------------------------------------------------ AnchorLocator
\* a slip: "not found" taken as position -1, as str.find reports it
locate_id_find(s, id_pattern, n_id) ==
    LET i == finditer(id_pattern, s, 0)
        i0 == IF i = <<>> THEN -1 ELSE i[1]
    IN [str |-> PySlice(s, i0 - n_id, i0)]

\* a slip: window ends one past the match start
locate_id_incl(s, id_pattern, n_id) ==
    LET i == finditer(id_pattern, s, 0)
    IN IF i = <<>> THEN [str |-> <<>>]
       ELSE [str |-> PySlice(s, i[1] - n_id, i[1] + 1)]

locate_id(s, id_pattern, n_id) ==
    LET i == finditer(id_pattern, s, 0)
    IN IF i = <<>> THEN [str |-> <<>>]
       ELSE [str |-> PySlice(s, i[1] - n_id, i[1])]

\* a slip: the last match is used instead of the first
locate_bc_last(s, bc_pattern, n_bc) ==
    LET i == finditer(bc_pattern, s, 0)
    IN IF i = <<>> THEN [str |-> <<>>]
       ELSE [str |-> PySlice(s, i[Len(i)] + 3, i[Len(i)] + 3 + n_bc)]

locate_bc(s, bc_pattern, n_bc) ==
    LET i == finditer(bc_pattern, s, 0)
    IN IF i = <<>> THEN [str |-> <<>>]
       ELSE [str |-> PySlice(s, i[1] + 3, i[1] + 3 + n_bc)]

\* ---------------------------------------------------- specification: locators
LocateAlphabet == {"A", "C"}
PatternAlphabet == {"A", "C", "."}

InitLocate ==
    /\ seq \in Strs(LocateAlphabet, MaxSeqLen)
    /\ pattern \in Strs(PatternAlphabet, MaxPatLen)
    /\ n \in 0..MaxN
    /\ sequence = <<>> /\ nucleic_acid = "DNA" /\ self = None
    /\ file = <<>> /\ rev_comp = FALSE /\ id_kwargs = None /\ bc_kwargs = None
    /\ df = None /\ pc = "" /\ called = "" /\ ret = None

LocateId ==
    /\ called = ""
    /\ called' = "locate_id"
    /\ ret' = locate_id(seq, pattern, n)
    /\ UNCHANGED <<seq, pattern, n, sequence, nucleic_acid, self, file,
                   rev_comp, id_kwargs, bc_kwargs, df, pc>>

LocateBc ==
    /\ called = ""
    /\ called' = "locate_bc"
    /\ ret' = locate_bc(seq, pattern, n)
    /\ UNCHANGED <<seq, pattern, n, sequence, nucleic_acid, self, file,
                   rev_comp, id_kwargs, bc_kwargs, df, pc>>

NextLocate == LocateId \/ LocateBc

SpecLocate == InitLocate /\ [][NextLocate]_vars

\* the claims speak of "the first match": the lowest position where the
\* pattern matches, stated without the scan
HasMatch(pat, s) == \E j \in 0..Len(s) : MatchAt(pat, s, j)
FirstMatch(pat, s) ==
    CHOOSE j \in 0..Len(s) :
        MatchAt(pat, s, j) /\ \A k \in 0..(j - 1) : ~MatchAt(pat, s, k)
Max(a, b) == IF a > b THEN a ELSE b
Min(a, b) == IF a < b THEN a ELSE b

\* C1: when seq contains no match of the pattern, locate_id and locate_bc
\* both return the empty string, and no exception.
C1_NoMatchEmpty ==
    (called \in {"locate_id", "locate_bc"} /\ ~HasMatch(pattern, seq))
        => ret = [str |-> <<>>]

C1_Witness ==
    /\ called = "locate_bc" /\ ~HasMatch(pattern, seq)
    /\ Len(seq) >= 4 /\ Len(pattern) >= 1 /\ n >= 1

\* C2 as stated: locate_id always returns seq[max(0, m-n) .. m), m the first
\* match start.
C2_ClampedWindow ==
    (called = "locate_id" /\ HasMatch(pattern, seq))
        => LET m == FirstMatch(pattern, seq)
           IN ret = [str |-> SubSeq(seq, Max(0, m - n) + 1, m)]

C10_WindowEndsAtMatch ==
    (called = "locate_id" /\ HasMatch(pattern, seq))
        => LET m == FirstMatch(pattern, seq)
           IN /\ "str" \in DOMAIN ret
              /\ Len(ret.str) <= Min(n, m)
              /\ ret.str = SubSeq(seq, m - Len(ret.str) + 1, m)

\* the wrapped case: more characters asked for than precede the match, and a
\* non-empty run is returned
C10_Witness ==
    /\ called = "locate_id" /\ HasMatch(pattern, seq)
    /\ n > FirstMatch(pattern, seq)
    /\ ret.str # <<>>

\* --------------------------------------------------------- ComplementEngine
\* barcode_id.py's complement table
bases ==
    ("A" :> [DNA |-> "T", RNA |-> "U"]) @@
    ("T" :> [DNA |-> "A", RNA |-> "A"]) @@
    ("G" :> [DNA |-> "C", RNA |-> "C"]) @@
    ("C" :> [DNA |-> "G", RNA |-> "G"]) @@
    ("N" :> [DNA |-> "N", RNA |-> "N"]) @@
    ("a" :> [DNA |-> "T", RNA |-> "U"]) @@
    ("t" :> [DNA |-> "A", RNA |-> "A"]) @@
    ("g" :> [DNA |-> "C", RNA |-> "C"]) @@
    ("c" :> [DNA |-> "G", RNA |-> "G"]) @@
    ("n" :> [DNA |-> "n", RNA |-> "n"]) @@
    (" " :> [DNA |-> " ", RNA |-> " "]) @@
    ("\t" :> [DNA |-> "\t", RNA |-> "\t"]) @@
    ("\n" :> [DNA |-> "\n", RNA |-> "\n"]) @@
    ("," :> [DNA |-> ",", RNA |-> ","])

\* a slip in the table: G is complemented to G
reverse_comp_gg(s, na) ==
    IF \E k \in 1..Len(s) : s[k] \notin DOMAIN bases
    THEN [exc |-> "KeyError"]
    ELSE [str |-> Reversed([k \in 1..Len(s) |->
                     IF s[k] \in {"G", "g"} THEN "G" ELSE bases[s[k]][na]])]

\* a slip: a character without a table entry is passed through
reverse_comp_lenient(s, na) ==
    [str |-> Reversed([k \in 1..Len(s) |->
                 IF s[k] \in DOMAIN bases THEN bases[s[k]][na] ELSE s[k]])]

\* bases[x] raises KeyError for a character that is no key of the table
reverse_comp(s, na) ==
    IF \E k \in 1..Len(s) : s[k] \notin DOMAIN bases
    THEN [exc |-> "KeyError"]
    ELSE [str |-> Reversed([k \in 1..Len(s) |-> bases[s[k]][na]])]

\* ------------------------------------------------ specification: complement
\* every character of the table, and "U", which has no entry
CompAlphabet == DOMAIN bases \cup {"U"}

InitComp ==
    /\ sequence \in Strs(CompAlphabet, MaxCompLen)
    /\ nucleic_acid \in {"DNA", "RNA"}
    /\ seq = <<>> /\ pattern = <<>> /\ n = 0 /\ self = None
    /\ file = <<>> /\ rev_comp = FALSE /\ id_kwargs = None /\ bc_kwargs = None
    /\ df = None /\ pc = "" /\ called = "" /\ ret = None

ReverseComp ==
    /\ called = ""
    /\ called' = "reverse_comp"
    /\ ret' = reverse_comp(sequence, nucleic_acid)
    /\ UNCHANGED <<seq, pattern, n, sequence, nucleic_acid, self, file,
                   rev_comp, id_kwargs, bc_kwargs, df, pc>>

\* reverse_comp applied to the string the first call returned
ReverseCompAgain ==
    /\ called = "reverse_comp"
    /\ "str" \in DOMAIN ret
    /\ called' = "reverse_comp(reverse_comp)"
    /\ ret' = reverse_comp(ret.str, nucleic_acid)
    /\ UNCHANGED <<seq, pattern, n, sequence, nucleic_acid, self, file,
                   rev_comp, id_kwargs, bc_kwargs, df, pc>>

NextComp == ReverseComp \/ ReverseCompAgain

SpecComp == InitComp /\ [][NextComp]_vars

\* upper-case form of a base letter, for case-insensitive comparison
Upper(x) ==
    CASE x = "a" -> "A" [] x = "t" -> "T" [] x = "g" -> "G"
      [] x = "c" -> "C" [] x = "n" -> "N" [] OTHER -> x
Passthrough == {" ", "\t", "\n", ","}
InTable(s) == \A k \in 1..Len(s) : s[k] \in DOMAIN bases
\* r carries the same base as s at every position, and the passthrough
\* characters unchanged in place
Restores(r, s) ==
    /\ Len(r) = Len(s)
    /\ \A k \in 1..Len(s) :
          /\ Upper(r[k]) = Upper(s[k])
          /\ s[k] \in Passthrough => r[k] = s[k]

\* C4: for a sequence of table characters the DNA round trip restores the
\* base letters (same length, same base at every position compared
\* case-insensitively, passthrough characters unchanged); the RNA round trip
\* does not restore a sequence that contains A or T.
C4_RoundTrip ==
    (called = "reverse_comp(reverse_comp)" /\ InTable(sequence))
        => /\ nucleic_acid = "DNA"
              => ("str" \in DOMAIN ret /\ Restores(ret.str, sequence))
           /\ (nucleic_acid = "RNA"
               /\ \E k \in 1..Len(sequence) : Upper(sequence[k]) \in {"A", "T"})
              => ~("str" \in DOMAIN ret /\ Restores(ret.str, sequence))

\* a DNA round trip of two different bases, one of them lower case
C4_Witness ==
    /\ called = "reverse_comp(reverse_comp)" /\ nucleic_acid = "DNA"
    /\ sequence = <<"g", "T">>
    /\ ret = [str |-> <<"G", "T">>]

\* an RNA round trip of a sequence with T that returns a string
C4_WitnessRNA ==
    /\ called = "reverse_comp(reverse_comp)" /\ nucleic_acid = "RNA"
    /\ sequence = <<"T", "G">> /\ "str" \in DOMAIN ret

\* ---------------------------------------------------------- SequenceMetrics
\* s.count(ch)
count(s, ch) == Cardinality({k \in 1..Len(s) : s[k] = ch})

\* a slip: lower-case bases are not counted
dna_sequence_upper(s) ==
    LET counts == [A |-> count(s, "A"), T |-> count(s, "T"),
                   C |-> count(s, "C"), G |-> count(s, "G")]
    IN [sequence |-> s, counts |-> counts,
        seq_length |-> counts.A + counts.T + counts.C + counts.G]

\* dna_sequence.__init__
dna_sequence(s) ==
    LET counts == [A |-> count(s, "A") + count(s, "a"),
                   T |-> count(s, "T") + count(s, "t"),
                   C |-> count(s, "C") + count(s, "c"),
                   G |-> count(s, "G") + count(s, "g")]
    IN [sequence |-> s, counts |-> counts,
        seq_length |-> counts.A + counts.T + counts.C + counts.G]

\* seq_analysis.py's complement table, local to dna_sequence.rev_comp
dna_sequence_bases ==
    ("A" :> [DNA |-> "T", RNA |-> "U"]) @@
    ("T" :> [DNA |-> "A", RNA |-> "A"]) @@
    ("G" :> [DNA |-> "C", RNA |-> "C"]) @@
    ("C" :> [DNA |-> "G", RNA |-> "G"]) @@
    ("a" :> [DNA |-> "T", RNA |-> "U"]) @@
    ("t" :> [DNA |-> "A", RNA |-> "A"]) @@
    ("g" :> [DNA |-> "C", RNA |-> "C"]) @@
    ("c" :> [DNA |-> "G", RNA |-> "G"]) @@
    (" " :> [DNA |-> " ", RNA |-> " "]) @@
    ("\t" :> [DNA |-> "\t", RNA |-> "\t"]) @@
    ("\n" :> [DNA |-> "\n", RNA |-> "\n"]) @@
    ("," :> [DNA |-> ",", RNA |-> ","])

\* a slip: the substituted string is not reversed
dna_sequence_rev_comp_fwd(obj, na) ==
    IF \E k \in 1..Len(obj.sequence) : obj.sequence[k] \notin DOMAIN dna_sequence_bases
    THEN [exc |-> "KeyError"]
    ELSE [str |-> [k \in 1..Len(obj.sequence) |->
                      dna_sequence_bases[obj.sequence[k]][na]]]

\* dna_sequence.rev_comp
dna_sequence_rev_comp(obj, na) ==
    IF \E k \in 1..Len(obj.sequence) : obj.sequence[k] \notin DOMAIN dna_sequence_bases
    THEN [exc |-> "KeyError"]
    ELSE [str |-> Reversed([k \in 1..Len(obj.sequence) |->
                               dna_sequence_bases[obj.sequence[k]][na]])]

\* a / b rounded to the nearest integer, b > 0
RoundDiv(a, b) == (2 * a + b) \div (2 * b)

\* a slip: an empty sequence is given GC content 0
gc_content_guarded(obj) ==
    IF obj.seq_length = 0 THEN [num_milli |-> 0]
    ELSE [num_milli |-> RoundDiv((obj.counts.G + obj.counts.C) * 100000,
                                 obj.seq_length)]

\* dna_sequence.gc_content: round(((G + C) / seq_length) * 100, 3)
gc_content(obj) ==
    IF obj.seq_length = 0 THEN [exc |-> "ZeroDivisionError"]
    ELSE [num_milli |-> RoundDiv((obj.counts.G + obj.counts.C) * 100000,
                                 obj.seq_length)]

\* dna_sequence.tm_calc
tm_calc(obj) ==
    IF obj.seq_length < 14
    THEN [num_milli |-> ((obj.counts.A + obj.counts.T) * 2
                         + (obj.counts.G + obj.counts.C) * 4) * 1000]
    ELSE LET total == obj.counts.A + obj.counts.T + obj.counts.G + obj.counts.C
         IN IF total = 0 THEN [exc |-> "ZeroDivisionError"]
            ELSE [num_milli |-> 64900 + RoundDiv(
                     41 * ((obj.counts.G + obj.counts.C) * 1000 - 16400), total)]

\* dna_sequence.mass_calc
mass_calc(obj) ==
    [num_milli |-> obj.counts.A * 313210 + obj.counts.T * 304200
                   + obj.counts.C * 289180 + obj.counts.G * 329210 - 61960]

\* --------------------------------------------------- specification: metrics
RECURSIVE Repeat(_, _)
Repeat(s, k) == IF k = 0 THEN <<>> ELSE s \o Repeat(s, k - 1)

MetricsAlphabet == {"A", "T", "G", "C", "a", "t", "g", "c", "N", "n", " ", "U"}
\* short sequences, and their repetitions to reach tm_calc's long branch
MetricsSequences ==
    {Repeat(s, k) : s \in Strs(MetricsAlphabet, MaxUnitLen), k \in 1..MaxRepeat}

InitMetrics ==
    /\ seq \in MetricsSequences
    /\ pattern = <<>> /\ n = 0 /\ sequence = <<>> /\ nucleic_acid = "DNA"
    /\ self = None
    /\ file = <<>> /\ rev_comp = FALSE /\ id_kwargs = None /\ bc_kwargs = None
    /\ df = None /\ pc = "" /\ called = "" /\ ret = None

Construct ==
    /\ called = ""
    /\ called' = "__init__"
    /\ self' = dna_sequence(seq)
    /\ UNCHANGED <<seq, pattern, n, sequence, nucleic_acid, file, rev_comp,
                   id_kwargs, bc_kwargs, df, pc, ret>>

RevComp ==
    /\ called = "__init__"
    /\ \E na \in {"DNA", "RNA"} :
          /\ nucleic_acid' = na
          /\ ret' = dna_sequence_rev_comp(self, na)
    /\ called' = "rev_comp"
    /\ UNCHANGED <<seq, pattern, n, sequence, self, file, rev_comp,
                   id_kwargs, bc_kwargs, df, pc>>

GcContent ==
    /\ called = "__init__"
    /\ ret' = gc_content(self)
    /\ called' = "gc_content"
    /\ UNCHANGED <<seq, pattern, n, sequence, nucleic_acid, self, file,
                   rev_comp, id_kwargs, bc_kwargs, df, pc>>

TmCalc ==
    /\ called = "__init__"
    /\ ret' = tm_calc(self)
    /\ called' = "tm_calc"
    /\ UNCHANGED <<seq, pattern, n, sequence, nucleic_acid, self, file,
                   rev_comp, id_kwargs, bc_kwargs, df, pc>>

MassCalc ==
    /\ called = "__init__"
    /\ ret' = mass_calc(self)
    /\ called' = "mass_calc"
    /\ UNCHANGED <<seq, pattern, n, sequence, nucleic_acid, self, file,
                   rev_comp, id_kwargs, bc_kwargs, df, pc>>

NextMetrics == Construct \/ RevComp \/ GcContent \/ TmCalc \/ MassCalc

SpecMetrics == InitMetrics /\ [][NextMetrics]_vars

Constructed == called # ""
OnlyBases(s) ==
    \A k \in 1..Len(s) : s[k] \in {"A", "T", "G", "C", "a", "t", "g", "c"}
\* case-insensitive number of occurrences of base b in s
Occurrences(s, b) == Cardinality({k \in 1..Len(s) : Upper(s[k]) = b})

\* C7: for a sequence of A, T, G, C in either case, the four counts add up to
\* the number of characters and to seq_length, and each count is the
\* case-insensitive number of occurrences of its base.
C7_CountsSum ==
    (Constructed /\ OnlyBases(seq))
        => /\ self.counts.A + self.counts.T + self.counts.G + self.counts.C
                = Len(seq)
           /\ self.seq_length = Len(seq)
           /\ self.counts.A = Occurrences(seq, "A")
           /\ self.counts.T = Occurrences(seq, "T")
           /\ self.counts.G = Occurrences(seq, "G")
           /\ self.counts.C = Occurrences(seq, "C")

C7_Witness ==
    /\ Constructed /\ OnlyBases(seq)
    /\ self.sequence = <<"a", "G">>
    /\ self.seq_length = 2

\* C8 as stated: rev_comp of the object gives the outcome of reverse_comp on
\* the stored sequence, whatever the sequence, N and n included.
C8_SameAsReverseComp ==
    called = "rev_comp" => ret = reverse_comp(self.sequence, nucleic_acid)

\* C8 amended: the two agree for every stored sequence without N or n; on a
\* sequence with N or n rev_comp raises KeyError.
C8_SameWithoutN ==
    called = "rev_comp"
        => IF \E k \in 1..Len(self.sequence) : self.sequence[k] \in {"N", "n"}
           THEN ret = [exc |-> "KeyError"]
           ELSE ret = reverse_comp(self.sequence, nucleic_acid)

C8_Witness ==
    /\ called = "rev_comp" /\ nucleic_acid = "RNA"
    /\ self.sequence = <<"a", "G">>
    /\ ret = [str |-> <<"C", "U">>]

ZeroLength(s) ==
    \A k \in 1..Len(s) : s[k] \notin {"A", "T", "G", "C", "a", "t", "g", "c"}

\* C9 as stated: on a sequence whose recognized-base length is zero both
\* gc_content and tm_calc end in a division by zero.
C9_BothDivideByZero ==
    (called \in {"gc_content", "tm_calc"} /\ ZeroLength(seq))
        => ret = [exc |-> "ZeroDivisionError"]

\* C9 amended: there gc_content ends in a division by zero, and tm_calc
\* returns 0.
C9_GcDividesTmZero ==
    ZeroLength(seq)
        => /\ called = "gc_content" => ret = [exc |-> "ZeroDivisionError"]
           /\ called = "tm_calc" => ret = [num_milli |-> 0]

C9_Witness ==
    /\ called = "gc_content" /\ ZeroLength(seq) /\ Len(seq) >= 2
    /\ ret = [exc |-> "ZeroDivisionError"]

\* --------------------------------------------------------- ReadBatchCompiler
\* **id_kwargs / **bc_kwargs: a keyword that is not passed takes the default
\* of locate_id / locate_bc
IdPattern(kw) ==
    IF "id_pattern" \in DOMAIN kw THEN kw.id_pattern
    ELSE <<"A", "A", "A", "C", "A", "A", "A", "C">>
NId(kw) == IF "n_id" \in DOMAIN kw THEN kw.n_id ELSE 6
BcPattern(kw) ==
    IF "bc_pattern" \in DOMAIN kw THEN kw.bc_pattern
    ELSE <<"G", "G", "G", "G", "G", "T">>
NBc(kw) == IF "n_bc" \in DOMAIN kw THEN kw.n_bc ELSE 30

\* df = pd.read_csv(file, header=None): one column, named 0, one row per line
ReadCsv ==
    /\ pc = "read_csv"
    /\ df' = ("0" :> file)
    /\ pc' = "rev_comp"
    /\ UNCHANGED <<seq, pattern, n, sequence, nucleic_acid, self, file,
                   rev_comp, id_kwargs, bc_kwargs, called, ret>>

\* if rev_comp: df[0] = df[0].apply(reverse_comp, nucleic_acid="DNA")
\* an exception raised for a row leaves compile_id
ApplyRevComp ==
    /\ pc = "rev_comp"
    /\ IF rev_comp
       THEN LET out == [j \in 1..Len(df["0"]) |-> reverse_comp(df["0"][j], "DNA")]
                bad == {j \in 1..Len(out) : "exc" \in DOMAIN out[j]}
            IN IF bad # {}
               THEN /\ ret' = [exc |-> out[CHOOSE j \in bad : \A k \in bad : j <= k].exc]
                    /\ called' = "compile_id"
                    /\ pc' = "raised"
                    /\ df' = df
               ELSE /\ df' = [df EXCEPT !["0"] = [j \in 1..Len(out) |-> out[j].str]]
                    /\ pc' = "locate_id"
                    /\ UNCHANGED <<called, ret>>
       ELSE /\ pc' = "locate_id"
            /\ UNCHANGED <<df, called, ret>>
    /\ UNCHANGED <<seq, pattern, n, sequence, nucleic_acid, self, file,
                   rev_comp, id_kwargs, bc_kwargs>>

\* a slip: the IDs are searched in the rows as read, not as complemented
ApplyLocateIdRaw ==
    /\ pc = "locate_id"
    /\ df' = df @@ ("id" :> [j \in 1..Len(file) |->
                       locate_id(file[j], IdPattern(id_kwargs), NId(id_kwargs)).str])
    /\ pc' = "locate_bc"
    /\ UNCHANGED <<seq, pattern, n, sequence, nucleic_acid, self, file,
                   rev_comp, id_kwargs, bc_kwargs, called, ret>>

\* df["id"] = df[0].apply(locate_id, **id_kwargs)
ApplyLocateId ==
    /\ pc = "locate_id"
    /\ df' = df @@ ("id" :> [j \in 1..Len(df["0"]) |->
                       locate_id(df["0"][j], IdPattern(id_kwargs), NId(id_kwargs)).str])
    /\ pc' = "locate_bc"
    /\ UNCHANGED <<seq, pattern, n, sequence, nucleic_acid, self, file,
                   rev_comp, id_kwargs, bc_kwargs, called, ret>>

\* df["barcode"] = df[0].apply(locate_bc, **bc_kwargs)
ApplyLocateBc ==
    /\ pc = "locate_bc"
    /\ df' = df @@ ("barcode" :> [j \in 1..Len(df["0"]) |->
                       locate_bc(df["0"][j], BcPattern(bc_kwargs), NBc(bc_kwargs)).str])
    /\ pc' = "rename"
    /\ UNCHANGED <<seq, pattern, n, sequence, nucleic_acid, self, file,
                   rev_comp, id_kwargs, bc_kwargs, called, ret>>

\* df.rename(columns={0: "seq"}, inplace=True); return df
RenameReturn ==
    /\ pc = "rename"
    /\ df' = [c \in {"seq", "id", "barcode"} |->
                 IF c = "seq" THEN df["0"] ELSE df[c]]
    /\ ret' = [table |-> df']
    /\ called' = "compile_id"
    /\ pc' = "done"
    /\ UNCHANGED <<seq, pattern, n, sequence, nucleic_acid, self, file,
                   rev_comp, id_kwargs, bc_kwargs>>

\* ----------------------------------------------------- specification: batch
\* reads of RowLen bases, and two reads with a character outside the table;
\* read_csv yields no empty row and splits a row at a comma
Reads == [1..RowLen -> {"A", "T"}] \cup {<<"A", "U">>, <<"U", "T", "A", "A", "A">>}
Files == UNION {[1..k -> Reads] : k \in 1..MaxRows}

InitBatch ==
    /\ file \in Files
    /\ rev_comp \in BOOLEAN
    /\ id_kwargs \in {<<>>, [id_pattern |-> <<"T", "A">>, n_id |-> 1]}
    /\ bc_kwargs \in {[bc_pattern |-> <<"T">>, n_bc |-> 2]}
    /\ seq = <<>> /\ pattern = <<>> /\ n = 0 /\ sequence = <<>>
    /\ nucleic_acid = "DNA" /\ self = None
    /\ df = None /\ pc = "read_csv" /\ called = "" /\ ret = None

NextBatch ==
    ReadCsv \/ ApplyRevComp \/ ApplyLocateId \/ ApplyLocateBc \/ RenameReturn

SpecBatch == InitBatch /\ [][NextBatch]_vars

\* row j of the returned table
OutRow(j) ==
    [seq |-> ret.table["seq"][j], id |-> ret.table["id"][j],
     barcode |-> ret.table["barcode"][j]]
\* the row the claim expects for input row r
ExpectedRow(r) ==
    LET s == IF rev_comp THEN reverse_comp(r, "DNA").str ELSE r
    IN [seq |-> s,
        id |-> locate_id(s, IdPattern(id_kwargs), NId(id_kwargs)).str,
        barcode |-> locate_bc(s, BcPattern(bc_kwargs), NBc(bc_kwargs)).str]

\* C5: compile_id returns one row per input row, in input order, none dropped
\* for an empty id or barcode; row j holds the (complemented, when rev_comp)
\* sequence of input row j and the id and barcode located in that sequence.
C5_RowPerRow ==
    pc = "done"
        => /\ "table" \in DOMAIN ret
           /\ DOMAIN ret.table = {"seq", "id", "barcode"}
           /\ \A c \in DOMAIN ret.table : Len(ret.table[c]) = Len(file)
           /\ \A j \in 1..Len(file) : OutRow(j) = ExpectedRow(file[j])

\* two different rows, complemented; the first has an id, the second none
C5_Witness ==
    /\ pc = "done" /\ rev_comp /\ Len(file) = 2
    /\ file[1] # file[2]
    /\ OutRow(1).seq # file[1]
    /\ OutRow(1).id # <<>> /\ OutRow(2).id = <<>>
    /\ OutRow(1).barcode # <<>>

\* C6: with rev_comp, a row holding a character without a table entry makes
\* reverse_comp raise, and compile_id ends with that error and returns no
\* table, whatever the other rows are.
C6_UnknownBaseAborts ==
    (rev_comp /\ pc \notin {"read_csv", "rev_comp"}
     /\ \E j \in 1..Len(file) : ~InTable(file[j]))
        => /\ pc = "raised"
           /\ ret = [exc |-> "KeyError"]

\* the first row is valid, the second is not
C6_Witness ==
    /\ pc = "raised" /\ rev_comp /\ Len(file) = 2
    /\ InTable(file[1]) /\ ~InTable(file[2])
    /\ ret = [exc |-> "KeyError"]

====
